---- MODULE Spec2Model ----
(***************************************************************************)
(* Model of the grin p2p Server (p2p/src/server.rs): the peer registry,    *)
(* the accept loop built by start, outbound dials made by connect_peer,    *)
(* the handshake raced against a timer by with_timeout, registration by    *)
(* add_to_peers, and stop.                                                  *)
(*                                                                         *)
(* A connection attempt (inbound or outbound) is numbered by its position  *)
(* in conns; the Peer a successful handshake builds is named by the same   *)
(* number, and peers (the registry, a Vec<Arc<Peer>>) is a sequence of     *)
(* those numbers.                                                          *)
(***************************************************************************)
EXTENDS Integers, Sequences, FiniteSets, TLC

\* ---- bounds of the model ------------------------------------------------
MaxConns == 2          \* connection attempts (inbound + outbound) in one run

Hosts == {1}
Ports == {1, 2}
Addrs == [ip : Hosts, port : Ports]
Diffs == {1, 2}        \* total_difficulty values a handshake can report
None == 0              \* Option::None; peers are numbered from 1

VARIABLES
    config,      \* Server.config: the bind host and port
    peers,       \* Server.peers: the registry, in insertion order
    conns,       \* every connection attempt made so far and its Peer
    server,      \* "live" | "stopped" (consumed by stop) | "panicked"
    stop_slot,   \* Server.stop: "None" | "Some" (sender armed) | "Fired"
    start_fut    \* the future returned by start: "none" | "pending" | "ok" | "err"

vars == <<config, peers, conns, server, stop_slot, start_fut>>

\* ---- helpers ------------------------------------------------------------
Range(s) == {s[i] : i \in 1..Len(s)}

\* A panic ends the process: once server is "panicked" no task runs again.
\* A connection attempt. st is the position of its task:
\*   "connecting"  outbound TcpStream::connect in flight
\*   "handshaking" handshake future racing the 5 s timer
\*   "running"     handshake done, peer.run in progress
\*   "ended"       peer.run finished (an error it ends with is only logged)
\*   "connfail"    TcpStream::connect failed
\*   "hsfail"      the handshake failed
\*   "timeout"     the timer won the race; the handshake future was dropped
\* res is the outcome of the connection's future as its owner sees it;
\* addr and diff are the Peer's info.addr and info.total_difficulty;
\* stops, notified and runs count the calls of peer.stop,
\* adapter.peer_connected and peer.run made for it.
NewConn(dir, addr, st) ==
    [dir |-> dir, addr |-> addr, st |-> st, res |-> "pending", diff |-> 0,
     stops |-> 0, notified |-> 0, notifiedInReg |-> FALSE, runs |-> 0]

\* Peer::is_connected: the peer is connected until its run loop ends
is_connected(cs, p) == cs[p].st = "running"

Connected == {p \in Range(peers) : is_connected(conns, p)}

Init ==
    /\ config \in [host : Hosts, port : Ports]
    /\ peers = <<>>
    /\ conns = <<>>
    /\ server = "live"
    /\ stop_slot = "None"
    /\ start_fut = "none"

\* ---- connect_peer --------------------------------------------------------
\* a lookup that skips the entries whose run loop has ended
find_peer_connected_only(ps, cs, addr) ==
    LET hits == {i \in 1..Len(ps) : cs[ps[i]].addr = addr /\ is_connected(cs, ps[i])}
    IN  IF hits = {} THEN None
        ELSE ps[CHOOSE i \in hits : \A j \in hits : i <= j]

\* the loop at the head of connect_peer: the first registry entry whose
\* info.addr equals addr, or None
find_peer(ps, cs, addr) ==
    LET hits == {i \in 1..Len(ps) : cs[ps[i]].addr = addr}
    IN  IF hits = {} THEN None
        ELSE ps[CHOOSE i \in hits : \A j \in hits : i <= j]

\* a self check that compares the port with the host
is_self_port_typo(cfg, addr) == addr.ip = cfg.host /\ addr.port = cfg.host

\* "asked to connect to ourselves"
is_self(cfg, addr) == addr.ip = cfg.host /\ addr.port = cfg.port

\* what connect_peer does with addr: return Some(peer), return None, or dial
connect_peer_ret(ps, cs, cfg, addr) ==
    LET found == find_peer(ps, cs, addr)
    IN  IF found # None THEN [kind |-> "Some", peer |-> found]
        ELSE IF is_self(cfg, addr) THEN [kind |-> "None", peer |-> None]
        ELSE [kind |-> "dial", peer |-> None]

connect_peer(addr) ==
    /\ server = "live"
    /\ IF connect_peer_ret(peers, conns, config, addr).kind = "dial"
       THEN /\ Len(conns) < MaxConns
            /\ conns' = Append(conns, NewConn("out", addr, "connecting"))
       ELSE UNCHANGED conns
    /\ UNCHANGED <<config, peers, server, stop_slot, start_fut>>

\* TcpStream::connect resolves; on success the handshake and its timer
\* start, on failure the future fails with Error::Connection
transport_result(ok) ==
    IF ok THEN [st |-> "handshaking", res |-> "pending"]
    ELSE [st |-> "connfail", res |-> "Connection"]

connect_done(c, ok) ==
    /\ server # "panicked"
    /\ c \in 1..Len(conns)
    /\ conns[c].st = "connecting"
    /\ conns' = [conns EXCEPT ![c].st = transport_result(ok).st,
                              ![c].res = transport_result(ok).res]
    /\ UNCHANGED <<config, peers, server, stop_slot, start_fut>>

\* ---- add_to_peers and with_timeout ---------------------------------------
\* a registration that checks the registry again for the peer's address
add_to_peers_recheck(ps, c, h) ==
    IF h = "ok" /\ ~\E p \in Range(ps) : conns[p].addr = conns[c].addr
    THEN Append(ps, c) ELSE ps

\* a registration made whatever the handshake yields
add_to_peers_eager(ps, c, h) == Append(ps, c)

\* a registration that keeps the registry in the order the connections
\* were started
add_to_peers_by_initiation(ps, c, h) ==
    IF h = "ok"
    THEN SelectSeq(ps, LAMBDA p : p < c) \o <<c>> \o
         SelectSeq(ps, LAMBDA p : p > c)
    ELSE ps

\* a registration that makes room by dropping the oldest entry
add_to_peers_evicting(ps, c, h) ==
    IF h = "ok"
    THEN (IF Len(ps) >= 1 THEN Append(Tail(ps), c) ELSE Append(ps, c))
    ELSE ps

\* add_to_peers maps over the handshake future: its closure runs only when
\* the handshake yields a peer, and pushes it at the end of the registry
add_to_peers(ps, c, h) == IF h = "ok" THEN Append(ps, c) ELSE ps

\* adapter.peer_connected is called in that closure, before the push:
\* the number of calls made, and whether the registry held the peer then
peer_connected(ps, c, h) ==
    IF h = "ok" THEN [calls |-> 1, inReg |-> c \in Range(ps)]
    ELSE [calls |-> 0, inReg |-> FALSE]

\* a race that lets a fired timer win over a ready handshake
with_timeout_timer_first(h, t) ==
    IF t THEN "Timeout"
    ELSE IF h = "ok" THEN "Ok"
    ELSE IF h = "err" THEN "Handshake"
    ELSE "pending"

\* a race whose error arm reports every failure as a timeout
with_timeout_error_as_timeout(h, t) ==
    IF h = "ok" THEN "Ok"
    ELSE IF h = "err" \/ t THEN "Timeout"
    ELSE "pending"

\* with_timeout: fut.select(timeout). h is what the handshake future yields
\* when polled ("ok", "err" or "pending"), t whether the timer has fired.
\* select polls the handshake first, so a ready handshake wins.
with_timeout(h, t) ==
    IF h = "ok" THEN "Ok"
    ELSE IF h = "err" THEN "Handshake"
    ELSE IF t THEN "Timeout"
    ELSE "pending"

\* a chain that goes on to the run loop whatever the race yielded
after_race_runs_on_error(out) ==
    CASE out = "Ok" -> "running"
      [] out = "Handshake" -> "running"
      [] out = "Timeout" -> "timeout"
      [] OTHER -> "handshaking"

\* where the task goes after the race: on Ok the run loop is started
\* (peer.run), otherwise the task ends with the error and the loser of the
\* race is dropped
after_race(out) ==
    CASE out = "Ok" -> "running"
      [] out = "Handshake" -> "hsfail"
      [] out = "Timeout" -> "timeout"
      [] OTHER -> "handshaking"

\* an accept loop that takes on the error of a connection's task
inbound_outcome_propagated(fut, st) ==
    IF st \in {"hsfail", "timeout", "errored"} THEN "err" ELSE fut

\* what the end of a spawned inbound task does to the future returned by
\* start: the task was spawned on its own and its error is logged, so nothing
inbound_outcome(fut, st) == fut

\* one poll of a handshaking connection's task
handshake_poll(c, h, t, d) ==
    /\ server # "panicked"
    /\ c \in 1..Len(conns)
    /\ conns[c].st = "handshaking"
    /\ with_timeout(h, t) # "pending"
    /\ LET out == with_timeout(h, t)
           pc == peer_connected(peers, c, h)
       IN  /\ peers' = add_to_peers(peers, c, h)
           /\ conns' = [conns EXCEPT
                  ![c].st = after_race(out),
                  ![c].res = out,
                  ![c].diff = d,
                  ![c].notified = @ + pc.calls,
                  ![c].notifiedInReg = pc.inReg,
                  ![c].runs = IF after_race(out) = "running" THEN @ + 1 ELSE @]
           /\ start_fut' = IF conns[c].dir = "in"
                           THEN inbound_outcome(start_fut, after_race(out))
                           ELSE start_fut
    /\ UNCHANGED <<config, server, stop_slot>>

\* peer.run ends, with or without an error; the error is only logged
run_end(c, err) ==
    /\ server # "panicked"
    /\ c \in 1..Len(conns)
    /\ conns[c].st = "running"
    /\ conns' = [conns EXCEPT ![c].st = "ended"]
    /\ start_fut' = IF conns[c].dir = "in" /\ err
                    THEN inbound_outcome(start_fut, "errored")
                    ELSE start_fut
    /\ UNCHANGED <<config, peers, server, stop_slot>>

\* ---- start, the accept loop, stop ----------------------------------------
start(bound) ==
    /\ server = "live"
    /\ start_fut = "none"
    /\ IF bound
       THEN /\ start_fut' = "pending"
            /\ stop_slot' = "Some"
            /\ UNCHANGED server
       ELSE /\ server' = "panicked"       \* TcpListener::bind(..).unwrap()
            /\ UNCHANGED <<start_fut, stop_slot>>
    /\ UNCHANGED <<config, peers, conns>>

\* socket.incoming() yields a connection: its handshake is started under
\* with_timeout and the whole per-peer future is spawned as its own task
accept(addr) ==
    /\ server # "panicked"
    /\ start_fut = "pending"
    /\ Len(conns) < MaxConns
    /\ conns' = Append(conns, NewConn("in", addr, "handshaking"))
    /\ UNCHANGED <<config, peers, server, stop_slot, start_fut>>

\* a select that does not wait for the shutdown signal
start_select_no_wait(acceptErr, fired) == IF acceptErr THEN "err" ELSE "ok"

\* server.select(stop_rx).then(..): the accept loop is polled first, so its
\* error wins; otherwise the future completes once the oneshot has fired
start_select(acceptErr, fired) ==
    IF acceptErr THEN "err"
    ELSE IF fired THEN "ok"
    ELSE "pending"

\* socket.incoming() yields an error: for_each fails and select passes it on
listener_error ==
    /\ server # "panicked"
    /\ start_fut = "pending"
    /\ start_fut' = start_select(TRUE, stop_slot = "Fired")
    /\ UNCHANGED <<config, peers, conns, server, stop_slot>>

\* the future returned by start is polled with the listener healthy
start_complete ==
    /\ server # "panicked"
    /\ start_fut = "pending"
    /\ start_select(FALSE, stop_slot = "Fired") # "pending"
    /\ start_fut' = start_select(FALSE, stop_slot = "Fired")
    /\ UNCHANGED <<config, peers, conns, server, stop_slot>>

\* a stop that only reaches the entries still connected
stop_targets_connected(ps) == {p \in Range(ps) : is_connected(conns, p)}

\* the peers stop() is called on: every entry of the registry
stop_targets(ps) == Range(ps)

\* a stop that skips the signal when the slot is empty
fire_stop_if_armed(slot) ==
    IF slot = "Some" THEN [slot |-> "Fired", server |-> "stopped"]
    ELSE [slot |-> slot, server |-> "stopped"]

\* self.stop.into_inner().unwrap().complete(()): the armed sender is fired;
\* on an empty slot the unwrap panics
fire_stop(slot) ==
    IF slot = "Some" THEN [slot |-> "Fired", server |-> "stopped"]
    ELSE [slot |-> slot, server |-> "panicked"]

stop ==
    /\ server = "live"
    /\ conns' = [c \in 1..Len(conns) |->
                   IF c \in stop_targets(peers)
                   THEN [conns[c] EXCEPT !.stops = @ + 1] ELSE conns[c]]
    /\ stop_slot' = fire_stop(stop_slot).slot
    /\ server' = fire_stop(stop_slot).server
    /\ UNCHANGED <<config, peers, start_fut>>

\* ---- registry operations -------------------------------------------------
\* how each operation takes the RwLock around the registry
lock_mode(op) ==
    CASE op = "connect_peer" -> "read"        \* self.peers.read()
      [] op = "clean_peers" -> "write"        \* self.peers.write()
      [] op = "most_work_peer" -> "read"
      [] op = "random_peer" -> "read"
      [] op = "broadcast_block" -> "write"    \* self.peers.write()
      [] op = "peer_count" -> "read"
      [] op = "stop" -> "write"
      [] op = "add_to_peers" -> "write"

\* an RwLock lets two holders overlap only when both hold it for reading
can_overlap(op1, op2) == lock_mode(op1) = "read" /\ lock_mode(op2) = "read"

RECURSIVE partition_inverted(_, _, _)
\* a fold with the test of is_connected negated
partition_inverted(ps, cs, acc) ==
    IF ps = <<>> THEN acc
    ELSE partition_inverted(Tail(ps), cs,
           IF ~is_connected(cs, Head(ps))
           THEN <<Append(acc[1], Head(ps)), acc[2]>>
           ELSE <<acc[1], Append(acc[2], Head(ps))>>)

RECURSIVE partition(_, _, _)
\* the fold of clean_peers: <<keep, rm>>
partition(ps, cs, acc) ==
    IF ps = <<>> THEN acc
    ELSE partition(Tail(ps), cs,
           IF is_connected(cs, Head(ps))
           THEN <<Append(acc[1], Head(ps)), acc[2]>>
           ELSE <<acc[1], Append(acc[2], Head(ps))>>)

\* the list clean_peers returns
clean_peers_ret(ps, cs) == partition(ps, cs, <<<<>>, <<>>>>)[2]

clean_peers ==
    /\ server = "live"
    /\ peers' = partition(peers, conns, <<<<>>, <<>>>>)[1]
    /\ UNCHANGED <<config, conns, server, stop_slot, start_fut>>

RECURSIVE scan_most_work(_, _, _, _)
\* the loop of most_work_peer, from entry i with res the best so far
scan_most_work(ps, cs, i, res) ==
    IF i > Len(ps) THEN res
    ELSE scan_most_work(ps, cs, i + 1,
           IF is_connected(cs, ps[i]) /\ cs[res].diff < cs[ps[i]].diff
           THEN ps[i] ELSE res)

\* the peer most_work_peer returns
most_work(ps, cs) ==
    IF Len(ps) = 0 THEN None ELSE scan_most_work(ps, cs, 1, ps[1])

most_work_peer ==
    /\ server = "live"
    /\ UNCHANGED vars
    /\ most_work(peers, conns) \in Range(peers) \cup {None}

\* the peer random_peer returns when gen_range draws idx
random_peer_ret(ps, idx) == IF Len(ps) = 0 THEN None ELSE ps[idx]

random_peer ==
    /\ server = "live"
    /\ UNCHANGED vars
    /\ \E idx \in 1..(IF Len(peers) = 0 THEN 1 ELSE Len(peers)) :
          random_peer_ret(peers, idx) \in Range(peers) \cup {None}

\* a count of the connected entries only
peer_count_connected(ps) ==
    Cardinality({i \in 1..Len(ps) : conns[ps[i]].st = "running"})

\* self.peers.read().unwrap().len(): every entry counts, connected or not
peer_count_ret(ps) == Len(ps)

peer_count ==
    /\ server = "live"
    /\ UNCHANGED vars
    /\ peer_count_ret(peers) \in Nat

RECURSIVE sends_abort_on_error(_, _, _)
\* a loop that returns at the first send_block error
sends_abort_on_error(ps, cs, fails) ==
    IF ps = <<>> THEN <<>>
    ELSE IF is_connected(cs, Head(ps))
         THEN <<[peer |-> Head(ps), ok |-> Head(ps) \notin fails]>>
              \o (IF Head(ps) \in fails THEN <<>>
                  ELSE sends_abort_on_error(Tail(ps), cs, fails))
         ELSE sends_abort_on_error(Tail(ps), cs, fails)

RECURSIVE sends(_, _, _)
\* the loop of broadcast_block: one send_block per connected entry, in
\* registry order; fails is the set of peers whose send_block returns Err
sends(ps, cs, fails) ==
    IF ps = <<>> THEN <<>>
    ELSE (IF is_connected(cs, Head(ps))
          THEN <<[peer |-> Head(ps), ok |-> Head(ps) \notin fails]>>
          ELSE <<>>) \o sends(Tail(ps), cs, fails)

broadcast_block(fails) ==
    /\ server = "live"
    /\ UNCHANGED vars
    /\ Len(sends(peers, conns, fails)) <= Len(peers)

Next ==
    \/ \E a \in Addrs : connect_peer(a)
    \/ \E c \in 1..MaxConns, ok \in BOOLEAN : connect_done(c, ok)
    \/ \E c \in 1..MaxConns, h \in {"ok", "err", "pending"}, t \in BOOLEAN :
          \E d \in (IF h = "ok" THEN Diffs ELSE {0}) : handshake_poll(c, h, t, d)
    \/ \E c \in 1..MaxConns, err \in BOOLEAN : run_end(c, err)
    \/ \E bound \in BOOLEAN : start(bound)
    \/ \E a \in Addrs : accept(a)
    \/ listener_error
    \/ start_complete
    \/ stop
    \/ clean_peers
    \/ most_work_peer
    \/ random_peer
    \/ peer_count
    \/ \E fails \in SUBSET Range(peers) : broadcast_block(fails)

Spec == Init /\ [][Next]_vars

\* the liveness runs start from one bind port: the ports are interchangeable
\* and the bind address plays no part in shutdown
LiveInit == Init /\ config.port = 1

\* the executor keeps polling the future returned by start
LiveSpec == LiveInit /\ [][Next]_vars /\ WF_vars(start_complete)

\* ---- properties ----------------------------------------------------------
\* SocketAddr::new(self.config.host, self.config.port)
SelfAddr == [ip |-> config.host, port |-> config.port]

HasEntry(a) == \E p \in Range(peers) : conns[p].addr = a

RECURSIVE SelectSeq2(_, _)
\* the elements of s that are in the set keep, in the order of s
SelectSeq2(s, keep) ==
    IF s = <<>> THEN <<>>
    ELSE IF Head(s) \in keep THEN <<Head(s)>> \o SelectSeq2(Tail(s), keep)
         ELSE SelectSeq2(Tail(s), keep)

C2_SelfAlwaysNone ==
    connect_peer_ret(peers, conns, config, SelfAddr).kind = "None"

\* C2 amended: connect_peer with the bind address never dials, inserts
\* nothing and notifies nobody; it returns None unless the registry already
\* holds an entry with that address, and then it returns that entry.
C2_SelfNeverDialed ==
    [][LET r == connect_peer_ret(peers, conns, config, SelfAddr)
       IN  /\ r.kind # "dial"
           /\ (~HasEntry(SelfAddr) => r.kind = "None")
           /\ (HasEntry(SelfAddr) =>
                 r.kind = "Some" /\ conns[r.peer].addr = SelfAddr)
           /\ (connect_peer(SelfAddr) => peers' = peers /\ conns' = conns)]_vars

\* a live server with peers, none of them at the bind address
C2_Witness ==
    /\ server = "live"
    /\ peers # <<>>
    /\ ~HasEntry(SelfAddr)
    /\ connect_peer_ret(peers, conns, config, SelfAddr).kind = "None"

\* C3: an attempt that ended with Timeout, inbound or outbound, has no
\* entry in the registry, was never announced to the adapter and never had
\* its run loop started, and the step that timed it out left the registry
\* as it was.
C3_TimeoutLeavesRegistry ==
    [][\A c \in 1..Len(conns') : conns'[c].res = "Timeout" =>
          /\ c \notin Range(peers')
          /\ conns'[c].notified = 0
          /\ conns'[c].runs = 0
          /\ conns'[c].st = "timeout"
          /\ (c \in 1..Len(conns) /\ conns[c].res # "Timeout" => peers' = peers)]_vars

\* one inbound and one outbound attempt have both timed out
C3_Witness ==
    \E c, e \in 1..Len(conns) :
        /\ conns[c].dir = "in" /\ conns[c].res = "Timeout"
        /\ conns[e].dir = "out" /\ conns[e].res = "Timeout"

\* C4: clean_peers keeps every entry that is connected when it is called,
\* removes and returns every entry that is not, and the kept registry and
\* the returned list partition the registry it found, each in its order.
C4_CleanPeersPartitions ==
    [][clean_peers =>
          LET rm == clean_peers_ret(peers, conns)
          IN  /\ \A p \in Range(peers) :
                    IF conns[p].st = "running"
                    THEN p \in Range(peers') /\ p \notin Range(rm)
                    ELSE p \notin Range(peers') /\ p \in Range(rm)
              /\ Len(peers') + Len(rm) = Len(peers)
              /\ peers' = SelectSeq2(peers, Range(peers'))
              /\ rm = SelectSeq2(peers, Range(rm))]_vars

\* a peer that was registered has been pruned while another, still
\* connected, was kept
C4_Witness ==
    \E p, q \in 1..Len(conns) :
        /\ conns[p].notified = 1 /\ conns[p].st = "ended" /\ p \notin Range(peers)
        /\ conns[q].st = "running" /\ q \in Range(peers)

C6_BroadcastReachesAllConnected ==
    /\ [](\A fails \in SUBSET Range(peers) :
            LET log == sends(peers, conns, fails)
                want == SelectSeq2(peers,
                            {p \in Range(peers) : conns[p].st = "running"})
            IN  /\ Len(log) = Len(want)
                /\ \A i \in 1..Len(log) :
                      /\ log[i].peer = want[i]
                      /\ log[i].ok = (want[i] \notin fails))
    /\ [][(peers' # peers \/ conns' # conns) =>
             ~\E fails \in SUBSET Range(peers) : broadcast_block(fails)]_vars

\* a live server with two connected peers: a failed send to the first is
\* followed by the send to the second
C6_Witness ==
    /\ server = "live"
    /\ Len(peers) >= 2
    /\ conns[peers[1]].st = "running"
    /\ conns[peers[2]].st = "running"
    /\ Len(sends(peers, conns, {peers[1]})) = 2

\* C7: on a started server stop calls peer.stop once on every entry of the
\* registry and fires the shutdown signal, no peer is ever stopped twice,
\* and once the signal is fired the future returned by start completes,
\* whether or not run loops are still executing.
C7_StopCompletesStart ==
    /\ [][(stop /\ stop_slot = "Some") =>
             /\ stop_slot' = "Fired"
             /\ \A p \in 1..Len(conns) :
                   conns'[p].stops =
                       IF p \in Range(peers) THEN conns[p].stops + 1
                       ELSE conns[p].stops]_vars
    /\ [](\A p \in 1..Len(conns) : conns[p].stops <= 1)
    /\ (stop_slot = "Fired") ~> (start_fut \in {"ok", "err"})

\* the future returned by start has completed after stop while a stopped
\* peer's run loop is still executing, and a disconnected entry was stopped
C7_Witness ==
    /\ stop_slot = "Fired"
    /\ start_fut = "ok"
    /\ \E p, q \in Range(peers) :
          /\ conns[p].st = "running" /\ conns[p].stops = 1
          /\ conns[q].st = "ended" /\ conns[q].stops = 1

\* C8: the check connect_peer makes before dialing looks at the registry
\* alone, so an address with no entry is dialed whatever dials are already
\* in flight, and every handshake that completes appends its peer, whether
\* or not the registry already holds an entry for that address.
C8_DuplicateDialsBothRegister ==
    [][/\ \A a \in Addrs : (~HasEntry(a) /\ a # SelfAddr) =>
             connect_peer_ret(peers, conns, config, a).kind = "dial"
       /\ \A c \in 1..Len(conns) :
             (conns[c].st = "handshaking" /\ conns'[c].st = "running") =>
                 peers' = Append(peers, c)]_vars

\* two outbound dials to one address are both registered
C8_Witness ==
    \E p, q \in Range(peers) :
        /\ p # q
        /\ conns[p].dir = "out" /\ conns[q].dir = "out"
        /\ conns[p].addr = conns[q].addr

\* C9: an outbound attempt whose transport connection failed ends with a
\* Connection error, one whose handshake failed ends with the handshake's
\* error; neither is in the registry, was announced to the adapter or had
\* a run loop started, and the failing step left the registry as it was.
C9_FailedDialInsertsNothing ==
    [][\A c \in 1..Len(conns') :
          (conns'[c].dir = "out" /\ conns'[c].st \in {"connfail", "hsfail"}) =>
              /\ conns'[c].res =
                    IF conns'[c].st = "connfail" THEN "Connection" ELSE "Handshake"
              /\ c \notin Range(peers')
              /\ conns'[c].notified = 0
              /\ conns'[c].runs = 0
              /\ (c \in 1..Len(conns) /\ conns[c].st # conns'[c].st =>
                    /\ peers' = peers
                    /\ conns[c].st =
                          IF conns'[c].st = "connfail" THEN "connecting"
                          ELSE "handshaking")]_vars

\* one dial failed at the transport and another at the handshake
C9_Witness ==
    \E c, e \in 1..Len(conns) :
        /\ conns[c].dir = "out" /\ conns[c].res = "Connection"
        /\ conns[e].dir = "out" /\ conns[e].res = "Handshake"

\* C10: the step in which an inbound connection fails its handshake, times
\* out or ends its run loop leaves the future returned by start, the
\* registry and every other connection as they were; as long as that
\* future is pending the acceptor takes further connections.
C10_InboundFailureIsLocal ==
    /\ [][\A c \in 1..Len(conns) :
             (/\ conns[c].dir = "in"
              /\ conns'[c].st # conns[c].st
              /\ conns'[c].st \in {"hsfail", "timeout", "ended"}) =>
                 /\ start_fut' = start_fut
                 /\ peers' = peers
                 /\ \A e \in 1..Len(conns) : e # c => conns'[e] = conns[e]]_vars
    /\ []((start_fut = "pending" /\ Len(conns) < MaxConns) =>
             ENABLED (\E a \in Addrs : accept(a)))

\* with start still pending, an inbound attempt has failed and a later
\* inbound connection is registered and running
C10_Witness ==
    /\ start_fut = "pending"
    /\ \E c, e \in 1..Len(conns) :
          /\ c < e
          /\ conns[c].dir = "in" /\ conns[c].st \in {"hsfail", "timeout"}
          /\ conns[e].dir = "in" /\ conns[e].st = "running" /\ e \in Range(peers)

C12_NotifiedOnceAfterInsert ==
    \A c \in 1..Len(conns) :
        /\ conns[c].res = "Ok" =>
              conns[c].notified = 1 /\ conns[c].notifiedInReg
        /\ conns[c].res # "Ok" => conns[c].notified = 0

C14_TimeoutOutcomes ==
    /\ [][\A c \in 1..Len(conns) :
             (conns[c].st = "handshaking" /\ conns'[c].st # "handshaking") =>
                 \A h \in {"ok", "err", "pending"} : \A t \in BOOLEAN :
                    handshake_poll(c, h, t, conns'[c].diff) =>
                       /\ h = "ok" => conns'[c].res = "Ok"
                       /\ h = "err" => conns'[c].res = "Handshake"
                       /\ (h = "pending" /\ t) => conns'[c].res = "Timeout"
                       /\ conns'[c].res \in {"Ok", "Handshake", "Timeout"}]_vars
    /\ [](\A c \in 1..Len(conns) :
             ~ENABLED handshake_poll(c, "pending", FALSE, 0))

\* one handshake has yielded its value and another its own error
C14_Witness ==
    \E c, e \in 1..Len(conns) :
        /\ conns[c].res = "Ok"
        /\ conns[e].res = "Handshake"

\* C15: on the outbound and on the inbound path alike, the step that starts
\* a peer's run loop is the step of its successful handshake and leaves the
\* peer in the registry, exactly once; a run loop is started at most once
\* per peer, the registry never holds a peer twice, and a peer enters the
\* registry only in that step, so the handle connect_peer's future yields
\* (res = Ok) belongs to a peer that was registered.
C15_RunOnlyAfterInsert ==
    /\ [][\A c \in 1..Len(conns) :
             /\ conns'[c].runs > conns[c].runs =>
                   /\ conns[c].st = "handshaking"
                   /\ c \notin Range(peers)
                   /\ Cardinality({i \in 1..Len(peers') : peers'[i] = c}) = 1
             /\ (c \notin Range(peers) /\ c \in Range(peers')) =>
                   /\ conns[c].st = "handshaking"
                   /\ conns'[c].st = "running"
                   /\ conns'[c].runs = 1
             /\ (conns[c].res # "Ok" /\ conns'[c].res = "Ok") =>
                   c \in Range(peers')
             /\ conns'[c].st = "handshaking" =>
                   conns[c].st \in {"handshaking", "connecting"}]_vars
    /\ [](\A c \in 1..Len(conns) :
             /\ conns[c].runs <= 1
             /\ conns[c].st \in {"running", "ended"} <=> conns[c].runs = 1)
    /\ [](\A i, j \in 1..Len(peers) :
             /\ peers[i] = peers[j] => i = j
             /\ conns[peers[i]].runs = 1)

\* an outbound and an inbound peer are both registered with their run loops
\* started
C15_Witness ==
    \E c, e \in Range(peers) :
        /\ conns[c].dir = "out" /\ conns[c].runs = 1
        /\ conns[e].dir = "in" /\ conns[e].runs = 1

\* C16: a peer entering the registry is placed behind every entry already
\* there, and the entries already there keep their places, so registry order
\* is the order in which handshakes completed and not the order in which
\* they were started; two entries never swap.
C16_CompletionOrder ==
    /\ [][peers' # peers => \A c \in 1..Len(conns) :
             (c \notin Range(peers) /\ c \in Range(peers')) =>
                 /\ Len(peers') = Len(peers) + 1
                 /\ peers'[Len(peers')] = c
                 /\ \A i \in 1..Len(peers) : peers'[i] = peers[i]]_vars
    /\ [][peers' # peers =>
             \A i, j \in 1..Len(peers) : \A k, l \in 1..Len(peers') :
                (i < j /\ peers'[k] = peers[i] /\ peers'[l] = peers[j]) =>
                    k < l]_vars

\* two overlapping handshakes of which the one started later completed
\* first: it is the first entry of the registry
C16_Witness ==
    /\ Len(peers) = 2
    /\ peers[1] > peers[2]
    /\ conns[peers[1]].st = "running"
    /\ conns[peers[2]].st = "running"

\* C17: broadcast_block takes the registry lock for reading only, so that
\* while it is sending to connected peers a concurrent most_work_peer,
\* random_peer, peer_count or second broadcast_block is not excluded; the
\* push in add_to_peers, clean_peers and stop take it for writing.
C17_BroadcastSharesLock ==
    /\ (server = "live" /\ Connected # {}) =>
          /\ lock_mode("broadcast_block") = "read"
          /\ \A op \in {"most_work_peer", "random_peer", "peer_count",
                        "broadcast_block"} :
                can_overlap("broadcast_block", op)
    /\ \A op \in {"add_to_peers", "clean_peers", "stop"} :
          lock_mode(op) = "write"

C19_StopBeforeStartFailsFast ==
    [][(stop /\ stop_slot = "None") =>
           /\ server' = "panicked"
           /\ start_fut' = start_fut
           /\ stop_slot' = "None"
           /\ peers' = peers
           /\ \A p \in 1..Len(conns) :
                 conns'[p].stops =
                     conns[p].stops + (IF p \in Range(peers) THEN 1 ELSE 0)]_vars

\* stop was called on a server that was never started and had registered an
\* outbound peer: the peer was asked to stop, the server panicked
C19_Witness ==
    /\ server = "panicked"
    /\ stop_slot = "None"
    /\ start_fut = "none"
    /\ \E p \in Range(peers) : conns[p].dir = "out" /\ conns[p].stops = 1

\* C20: once stop has been called on a started server, every peer in the
\* registry has had stop invoked on it, including a peer whose handshake
\* was still in flight when stop was called and that registered afterwards.
C20_EveryRegisteredPeerStopped ==
    server = "stopped" =>
        \A p \in Range(peers) : conns[p].stops >= 1
====
